---- MODULE Spec2Model ----
(***************************************************************************)
(* Model of provider-bitbucketserver: the transport client (Client.do,     *)
(* Client.handleResponse), the repository resource client (Get, Create,    *)
(* Update, Delete, GetGroups, AddGroup, RevokeGroup) and the reconciliation *)
(* engine (external.Observe, Create, Update, Delete), run against a stub   *)
(* of the Bitbucket Server REST API that holds one repository identity.    *)
(*                                                                         *)
(* An engine operation is one action: the handler runs all its calls.  Its *)
(* inputs are the place and kind of a fault (at most one call of an        *)
(* operation can fail before the operation returns, or it is the last call *)
(* of Observe) and the order in which the server lists the grants.         *)
(***************************************************************************)
EXTENDS Integers, Sequences, FiniteSets

VARIABLES remote, desired, statusID, last

vars == <<remote, desired, statusID, last>>

\* ------------------------------------------------------------------ bounds

\* Longest desired group sequence.
MaxGroups == 2

\* Group names, access levels and descriptions the records are drawn from.
Names == {"A", "B"}
Perms == {"read", "write"}
Descs == {"x", "y"}

\* The one repository identity (project, name) the operations address.
ProjectKey == "CORE"
RepoName == "svc"

\* ------------------------------------------------------------------ records

\* Zero value of Repository.ID / RepositoryObservation.ID, and the id the
\* server assigns.
NoID == 0
ServerID == 7

NoPerm == "-"

AdGroup == [name : Names, permission : Perms]

NoGroup == [name |-> "-", permission |-> "-"]

\* A bitbucket.Repository body as json.Encoder writes it: name, public,
\* description (ID and Project carry json:"-").
NoBody == [name |-> "-", public |-> FALSE, description |-> "-"]

\* The zero repositoryJson.
ZeroRepo == [id |-> NoID, name |-> "", project |-> "", description |-> ""]

NoPayload == [repo |-> ZeroRepo, values |-> <<>>]

Range(s) == {s[i] : i \in 1..Len(s)}

SeqsUpTo(S, n) == UNION {[1..k -> S] : k \in 0..n}

\* All orders in which the members of the finite set S can be listed.
Orders(S) == {s \in [1..Cardinality(S) -> S] : Range(s) = S}

\* All rearrangements of the sequence s.
Rearrangements(s) ==
    LET n == Len(s)
        Bij == {p \in [1..n -> 1..n] : Range(p) = 1..n}
    IN  {[i \in 1..n |-> s[p[i]]] : p \in Bij}

\* The member of a one-element set: The({e(x) : x \in {v}}) is e(v) with v
\* computed once.
The(S) == CHOOSE x \in S : TRUE

NoDupNames(groups) ==
    \A i, j \in 1..Len(groups) : groups[i].name = groups[j].name => i = j

\* ------------------------------------------------------------------ errors

\* An error value is its chain, outermost message first; nil is the empty
\* chain.  fmt.Errorf("...: %w", err) and errors.Wrap(err, "...") put one
\* message in front; errors.Is looks through the whole chain.
Nil == <<>>

ErrPermission == <<"permission">>
ErrNotFound == <<"not_found">>
ErrResponseMalformed == <<"response_malformed">>
ErrConflict == <<"conflict">>

Wrap(msg, err) == <<msg>> \o err

\* Mutant of Is: err == target, which a wrapped error never satisfies.
Is_Direct(err, target) == err = target

Is(err, target) == \E i \in 1..Len(err) : SubSeq(err, i, Len(err)) = target

\* ------------------------------------------------------------------ transport

\* Mutant of handleResponse: the nil target and 204 are looked at before the
\* status code.
handleResponse_NilFirst(res, vNil) ==
    IF ~res.readOK THEN [err |-> <<"read_error">>, unmarshal |-> FALSE]
    ELSE IF vNil \/ res.status = 204 THEN [err |-> Nil, unmarshal |-> FALSE]
    ELSE IF res.status = 404 THEN [err |-> ErrNotFound, unmarshal |-> FALSE]
    ELSE IF res.status = 401 THEN [err |-> ErrPermission, unmarshal |-> FALSE]
    ELSE IF res.status = 409 THEN [err |-> ErrConflict, unmarshal |-> FALSE]
    ELSE IF res.status >= 400 THEN [err |-> <<"returned_status">>, unmarshal |-> FALSE]
    ELSE IF res.body = "syntax" THEN [err |-> ErrResponseMalformed, unmarshal |-> TRUE]
    ELSE IF res.body = "mismatch" THEN [err |-> <<"unmarshal_type_error">>, unmarshal |-> TRUE]
    ELSE [err |-> Nil, unmarshal |-> TRUE]

\* Mutant of handleResponse: the json.SyntaxError is returned as it is.
handleResponse_NoAs(res, vNil) ==
    IF ~res.readOK THEN [err |-> <<"read_error">>, unmarshal |-> FALSE]
    ELSE IF res.status = 404 THEN [err |-> ErrNotFound, unmarshal |-> FALSE]
    ELSE IF res.status = 401 THEN [err |-> ErrPermission, unmarshal |-> FALSE]
    ELSE IF res.status = 409 THEN [err |-> ErrConflict, unmarshal |-> FALSE]
    ELSE IF res.status >= 400 THEN [err |-> <<"returned_status">>, unmarshal |-> FALSE]
    ELSE IF vNil \/ res.status = 204 THEN [err |-> Nil, unmarshal |-> FALSE]
    ELSE IF res.body = "syntax" THEN [err |-> <<"json_syntax_error">>, unmarshal |-> TRUE]
    ELSE IF res.body = "mismatch" THEN [err |-> <<"unmarshal_type_error">>, unmarshal |-> TRUE]
    ELSE [err |-> Nil, unmarshal |-> TRUE]

\* Client.handleResponse.  res: status, readOK (io.ReadAll succeeded) and
\* body ("valid": JSON that fits the target, "syntax": not JSON, "mismatch":
\* JSON of another shape); vNil: the decode target is nil.  Returns the error
\* and whether json.Unmarshal was called.
handleResponse(res, vNil) ==
    IF ~res.readOK THEN [err |-> <<"read_error">>, unmarshal |-> FALSE]
    ELSE IF res.status = 404 THEN [err |-> ErrNotFound, unmarshal |-> FALSE]
    ELSE IF res.status = 401 THEN [err |-> ErrPermission, unmarshal |-> FALSE]
    ELSE IF res.status = 409 THEN [err |-> ErrConflict, unmarshal |-> FALSE]
    ELSE IF res.status >= 400 THEN [err |-> <<"returned_status">>, unmarshal |-> FALSE]
    ELSE IF vNil \/ res.status = 204 THEN [err |-> Nil, unmarshal |-> FALSE]
    ELSE IF res.body = "syntax" THEN [err |-> ErrResponseMalformed, unmarshal |-> TRUE]
    ELSE IF res.body = "mismatch" THEN [err |-> <<"unmarshal_type_error">>, unmarshal |-> TRUE]
    ELSE [err |-> Nil, unmarshal |-> TRUE]

\* ------------------------------------------------------------------ server stub

AbsentRepo ==
    [exists |-> FALSE, id |-> NoID, description |-> "", public |-> FALSE,
     grants |-> [n \in Names |-> NoPerm]]

\* The grants of a repository as the set of (name, permission) pairs.
GrantSet(rem) ==
    {[name |-> n, permission |-> rem.grants[n]] : n \in {m \in Names : rem.grants[m] # NoPerm}}

RepoJson(rem) ==
    [id |-> rem.id, name |-> RepoName, project |-> ProjectKey, description |-> rem.description]

Answer(code, rem, payload) == [status |-> code, remote |-> rem, payload |-> payload]

\* The remote API of one repository identity.  req: method, path ("repo",
\* "repos", "groups"), body, group (the query parameters); ord: the order in
\* which the grants are listed.
ServerHandle(rem, req, ord) ==
    IF req.path = "repos" /\ req.method = "POST" THEN
        IF rem.exists THEN Answer(409, rem, NoPayload)
        ELSE LET new == [exists |-> TRUE, id |-> ServerID,
                         description |-> req.body.description,
                         public |-> req.body.public,
                         grants |-> [n \in Names |-> NoPerm]]
             IN  Answer(201, new, [repo |-> RepoJson(new), values |-> <<>>])
    ELSE IF ~rem.exists THEN Answer(404, rem, NoPayload)
    ELSE IF req.path = "repo" /\ req.method = "GET" THEN
        Answer(200, rem, [repo |-> RepoJson(rem), values |-> <<>>])
    ELSE IF req.path = "repo" /\ req.method = "PUT" THEN
        LET new == IF req.body = NoBody THEN rem
                   ELSE [rem EXCEPT !.description = req.body.description,
                                    !.public = req.body.public]
        IN  Answer(200, new, [repo |-> RepoJson(new), values |-> <<>>])
    ELSE IF req.path = "repo" /\ req.method = "DELETE" THEN
        Answer(202, AbsentRepo, NoPayload)
    ELSE IF req.path = "groups" /\ req.method = "GET" THEN
        Answer(200, rem, [repo |-> ZeroRepo, values |-> ord])
    ELSE IF req.path = "groups" /\ req.method = "PUT" THEN
        Answer(204, [rem EXCEPT !.grants[req.group.name] = req.group.permission], NoPayload)
    ELSE IF req.path = "groups" /\ req.method = "DELETE" THEN
        Answer(204, [rem EXCEPT !.grants[req.group.name] = NoPerm], NoPayload)
    ELSE Answer(405, rem, NoPayload)

\* What an injected fault makes of one HTTP exchange.
Faults == {"unauthorized", "network"}

FaultStatus(fault) == IF fault = "unauthorized" THEN 401 ELSE 500

\* Client.do: the exchange, then handleResponse.  A fault replaces the
\* server's answer and leaves the remote untouched.  When c.client.Do itself
\* fails its error is returned as it is: a network failure, or the context
\* of the request cancelled before the server got to act.
do(rem, req, vNil, fault, ord) ==
    IF fault = "network" THEN
        [err |-> <<"net_error">>, remote |-> rem, payload |-> NoPayload]
    ELSE IF fault = "cancelled" THEN
        [err |-> <<"context_canceled">>, remote |-> rem, payload |-> NoPayload]
    ELSE
        The({ The({ [err |-> hr.err, remote |-> ans.remote,
                     payload |-> IF hr.unmarshal /\ hr.err = Nil THEN ans.payload
                                 ELSE NoPayload]
                    : hr \in {handleResponse([status |-> ans.status, readOK |-> TRUE,
                                              body |-> "valid"], vNil)} })
              : ans \in {IF fault = "none" THEN ServerHandle(rem, req, ord)
                         ELSE Answer(FaultStatus(fault), rem, NoPayload)} })

\* ------------------------------------------------------------------ resource client

Request(method, path, body, group) ==
    [method |-> method, path |-> path, body |-> body, group |-> group]

\* One entry of an operation's call trace; values: the grants a GetGroups
\* call returned.
Call(name, req, err, values) ==
    [name |-> name, method |-> req.method, path |-> req.path, body |-> req.body,
     group |-> req.group, err |-> err, values |-> values]

\* if err != nil { return fmt.Errorf(msg + ": %w", err) }
WrapIf(msg, err) == IF err # Nil THEN Wrap(msg, err) ELSE Nil

\* repositoryJson.toRepository
toRepository(r) ==
    [id |-> r.id, name |-> r.name, project |-> r.project, description |-> r.description]

\* A method that returns a repository: the request, the exchange, the wrap.
RepoResult(name, msg, req, r) ==
    [err |-> WrapIf(msg, r.err), repo |-> toRepository(r.payload.repo),
     remote |-> r.remote, call |-> Call(name, req, WrapIf(msg, r.err), <<>>)]

\* A method that returns only an error.
ErrResult(name, msg, req, r) ==
    [err |-> WrapIf(msg, r.err), remote |-> r.remote,
     call |-> Call(name, req, WrapIf(msg, r.err), <<>>)]

\* Mutant of Get: the repository is fetched with an empty PUT.
Get_ByPut(rem, fault) ==
    The({ RepoResult("Get", "error fetching repository",
                     Request("PUT", "repo", NoBody, NoGroup), r)
          : r \in {do(rem, Request("PUT", "repo", NoBody, NoGroup), FALSE, fault, <<>>)} })

\* repositoryService.Get
Get(rem, fault) ==
    The({ RepoResult("Get", "error fetching repository",
                     Request("GET", "repo", NoBody, NoGroup), r)
          : r \in {do(rem, Request("GET", "repo", NoBody, NoGroup), FALSE, fault, <<>>)} })

\* repositoryService.Create
RepoCreate(rem, body, fault) ==
    The({ RepoResult("Create", "error creating repository",
                     Request("POST", "repos", body, NoGroup), r)
          : r \in {do(rem, Request("POST", "repos", body, NoGroup), FALSE, fault, <<>>)} })

\* repositoryService.Update
RepoUpdate(rem, body, fault) ==
    The({ RepoResult("Update", "error updating repository",
                     Request("PUT", "repo", body, NoGroup), r)
          : r \in {do(rem, Request("PUT", "repo", body, NoGroup), FALSE, fault, <<>>)} })

\* The two resource clients of the repository: internal/bitbucket/repository.go
\* and the later one that also serves the group permissions.
Versions == {"repository.go", "permissions"}

\* The verb repositoryService.Delete hands to newRequest.
DeleteMethod(version) == IF version = "repository.go" THEN "PUT" ELSE "DELETE"

\* repositoryService.Delete
RepoDelete(rem, version, fault) ==
    The({ ErrResult("Delete", "error deleting repository",
                    Request(DeleteMethod(version), "repo", NoBody, NoGroup), r)
          : r \in {do(rem, Request(DeleteMethod(version), "repo", NoBody, NoGroup),
                      TRUE, fault, <<>>)} })

\* Mutant of GetGroups: entry.Permission is not copied into the Group.
GetGroups_NoPermission(rem, fault, ord) ==
    The({ [err |-> WrapIf("error getting repository group", r.err),
           groups |-> IF r.err # Nil THEN <<>>
                      ELSE [i \in 1..Len(r.payload.values) |->
                               [name |-> r.payload.values[i].name, permission |-> ""]],
           remote |-> r.remote,
           call |-> Call("GetGroups", Request("GET", "groups", NoBody, NoGroup),
                         WrapIf("error getting repository group", r.err),
                         IF r.err # Nil THEN <<>> ELSE r.payload.values)]
          : r \in {do(rem, Request("GET", "groups", NoBody, NoGroup), FALSE, fault, ord)} })

\* repositoryService.GetGroups: nil on failure, else the listed grants in
\* the order of the response.
GetGroups(rem, fault, ord) ==
    The({ [err |-> WrapIf("error getting repository group", r.err),
           groups |-> IF r.err # Nil THEN <<>> ELSE r.payload.values,
           remote |-> r.remote,
           call |-> Call("GetGroups", Request("GET", "groups", NoBody, NoGroup),
                         WrapIf("error getting repository group", r.err),
                         IF r.err # Nil THEN <<>> ELSE r.payload.values)]
          : r \in {do(rem, Request("GET", "groups", NoBody, NoGroup), FALSE, fault, ord)} })

\* repositoryService.AddGroup
AddGroup(rem, group, fault) ==
    The({ ErrResult("AddGroup", "error adding repository group",
                    Request("PUT", "groups", NoBody, group), r)
          : r \in {do(rem, Request("PUT", "groups", NoBody, group), TRUE, fault, <<>>)} })

\* repositoryService.RevokeGroup
RevokeGroup(rem, group, fault) ==
    The({ ErrResult("RevokeGroup", "error revoking repository group",
                    Request("DELETE", "groups", NoBody, group), r)
          : r \in {do(rem, Request("DELETE", "groups", NoBody, group), TRUE, fault, <<>>)} })

\* ------------------------------------------------------------------ engine

\* The fault of the i-th call of an operation whose failAt-th call fails.
FaultAt(i, failAt, fault) == IF i = failAt THEN fault ELSE "none"

\* Mutant of groupsEqual: the grants are compared position by position.
groupsEqual_Positional(crGroups, groups) ==
    IF Len(crGroups) # Len(groups) THEN FALSE
    ELSE \A i \in 1..Len(crGroups) :
            /\ crGroups[i].name = groups[i].name
            /\ crGroups[i].permission = groups[i].permission

\* Mutant of groupsEqual: the length check is missing.
groupsEqual_NoLen(crGroups, groups) ==
    \A i \in 1..Len(crGroups) :
        \E j \in 1..Len(groups) :
            /\ crGroups[i].name = groups[j].name
            /\ crGroups[i].permission = groups[j].permission

\* Mutant of groupsEqual: a grant is found by its name alone.
groupsEqual_NameOnly(crGroups, groups) ==
    IF Len(crGroups) # Len(groups) THEN FALSE
    ELSE \A i \in 1..Len(crGroups) :
            \E j \in 1..Len(groups) : crGroups[i].name = groups[j].name

\* groupsEqual
groupsEqual(crGroups, groups) ==
    IF Len(crGroups) # Len(groups) THEN FALSE
    ELSE \A i \in 1..Len(crGroups) :
            \E j \in 1..Len(groups) :
                /\ crGroups[i].name = groups[j].name
                /\ crGroups[i].permission = groups[j].permission

\* What an engine operation returns (err, exists, upToDate) and leaves behind:
\* the remote, the calls it issued, and on the managed resource the status id,
\* the condition it set ("" for none) and the external name it set.
Outcome(rem, calls, err, exists, upToDate, id, condition, externalName) ==
    [remote |-> rem, calls |-> calls, err |-> err, exists |-> exists,
     upToDate |-> upToDate, id |-> id, condition |-> condition,
     externalName |-> externalName]

\* Mutant of ObserveFound: the grants are fetched before the descriptions
\* are compared.
ObserveFound_NoShortCircuit(cr, g, failAt, fault, ord) ==
    The({ Outcome(gg.remote, <<g.call, gg.call>>, Nil, TRUE,
                  /\ g.repo.description = cr.description
                  /\ \A i \in 1..Len(cr.groups) :
                        \E j \in 1..Len(gg.groups) :
                            /\ cr.groups[i].name = gg.groups[j].name
                            /\ cr.groups[i].permission = gg.groups[j].permission
                  /\ Len(cr.groups) = Len(gg.groups),
                  g.repo.id, "Available", "")
          : gg \in {GetGroups(g.remote, FaultAt(2, failAt, fault), ord)} })

\* Mutant of ObserveFound: the id is recorded after the description check.
ObserveFound_IdAfterCheck(cr, g, failAt, fault, ord) ==
    IF g.repo.description # cr.description
    THEN Outcome(g.remote, <<g.call>>, Nil, TRUE, FALSE, NoID, "Available", "")
    ELSE The({ Outcome(gg.remote, <<g.call, gg.call>>, Nil, TRUE,
                       groupsEqual(cr.groups, gg.groups), g.repo.id, "Available", "")
               : gg \in {GetGroups(g.remote, FaultAt(2, failAt, fault), ord)} })

\* Mutant of ObserveFound: the visibility is part of the drift check.
ObserveFound_ComparesPublic(cr, g, failAt, fault, ord) ==
    IF g.repo.description # cr.description \/ g.remote.public # cr.public
    THEN Outcome(g.remote, <<g.call>>, Nil, TRUE, FALSE, g.repo.id, "Available", "")
    ELSE The({ Outcome(gg.remote, <<g.call, gg.call>>, Nil, TRUE,
                       groupsEqual(cr.groups, gg.groups), g.repo.id, "Available", "")
               : gg \in {GetGroups(g.remote, FaultAt(2, failAt, fault), ord)} })

\* external.Observe, from the description check on: g is what Get returned.
ObserveFound(cr, g, failAt, fault, ord) ==
    IF g.repo.description # cr.description
    THEN Outcome(g.remote, <<g.call>>, Nil, TRUE, FALSE, g.repo.id, "Available", "")
    ELSE The({ Outcome(gg.remote, <<g.call, gg.call>>, Nil, TRUE,
                       groupsEqual(cr.groups, gg.groups), g.repo.id, "Available", "")
               : gg \in {GetGroups(g.remote, FaultAt(2, failAt, fault), ord)} })

\* Mutant of Observe: a failed fetch is tried once more before the error is
\* returned.
Observe_RetryGet(cr, rem, id, failAt, fault, ord) ==
    The({ IF g.err # Nil THEN
              IF Is(g.err, ErrNotFound)
              THEN Outcome(g.remote, <<g.call>>, Nil, FALSE, FALSE, id, "", "")
              ELSE The({ Outcome(g2.remote, <<g.call, g2.call>>,
                                 Wrap("error fetching Bitbucket repository", g.err),
                                 FALSE, FALSE, id, "", "")
                         : g2 \in {Get(g.remote, "none")} })
          ELSE ObserveFound(cr, g, failAt, fault, ord)
          : g \in {Get(rem, FaultAt(1, failAt, fault))} })

\* external.Observe
Observe(cr, rem, id, failAt, fault, ord) ==
    The({ IF g.err # Nil THEN
              IF Is(g.err, ErrNotFound)
              THEN Outcome(g.remote, <<g.call>>, Nil, FALSE, FALSE, id, "", "")
              ELSE Outcome(g.remote, <<g.call>>,
                           Wrap("error fetching Bitbucket repository", g.err),
                           FALSE, FALSE, id, "", "")
          ELSE ObserveFound(cr, g, failAt, fault, ord)
          : g \in {Get(rem, FaultAt(1, failAt, fault))} })

\* A loop's result so far (acc) followed by one more call (c).
Then(acc, c) ==
    [remote |-> c.remote, calls |-> acc.calls \o <<c.call>>, err |-> c.err]

\* Mutant of AddGroups: the loop goes on after a failed AddGroup and returns
\* the first error at its end.
RECURSIVE AddGroups_NoStop(_, _, _, _, _)
AddGroups_NoStop(acc, groups, i, failAt, fault) ==
    IF i > Len(groups) THEN acc
    ELSE The({ AddGroups_NoStop([next EXCEPT !.err = IF acc.err # Nil THEN acc.err ELSE next.err],
                                groups, i + 1, failAt, fault)
               : next \in {Then(acc, AddGroup(acc.remote,
                                     [name |-> groups[i].name,
                                      permission |-> groups[i].permission],
                                     FaultAt(Len(acc.calls) + 1, failAt, fault)))} })

\* Mutant of AddGroups: only the first desired group is added.
AddGroups_FirstOnly(acc, groups, i, failAt, fault) ==
    IF acc.err # Nil \/ i > Len(groups) \/ i > 1 THEN acc
    ELSE Then(acc, AddGroup(acc.remote,
                            [name |-> groups[i].name, permission |-> groups[i].permission],
                            FaultAt(Len(acc.calls) + 1, failAt, fault)))

\* The AddGroup loop of Create and Update from groups[i] on; acc: the remote,
\* the calls issued so far and the error; the loop returns at the first error.
RECURSIVE AddGroups(_, _, _, _, _)
AddGroups(acc, groups, i, failAt, fault) ==
    IF acc.err # Nil \/ i > Len(groups) THEN acc
    ELSE The({ AddGroups(next, groups, i + 1, failAt, fault)
               : next \in {Then(acc, AddGroup(acc.remote,
                                     [name |-> groups[i].name,
                                      permission |-> groups[i].permission],
                                     FaultAt(Len(acc.calls) + 1, failAt, fault)))} })

\* Mutant of EngineBody: the description is left out of the body.
EngineBody_NoDescription(cr) == [name |-> RepoName, public |-> FALSE, description |-> ""]

\* The body external.Create and external.Update send: Name, Project and
\* Description are set, Public keeps its zero value.
EngineBody(cr) == [name |-> RepoName, public |-> FALSE, description |-> cr.description]

\* external.Create, after the repository Create call c.
CreateGroups(cr, c, id, failAt, fault) ==
    IF c.err # Nil
    THEN Outcome(c.remote, <<c.call>>, c.err, FALSE, FALSE, id, "Creating", "")
    ELSE The({ Outcome(a.remote, a.calls, a.err, FALSE, FALSE, id, "Creating",
                       IF a.err = Nil THEN c.repo.name ELSE "")
               : a \in {AddGroups([remote |-> c.remote, calls |-> <<c.call>>, err |-> Nil],
                                  cr.groups, 1, failAt, fault)} })

\* external.Create
Create(cr, rem, id, failAt, fault) ==
    The({ CreateGroups(cr, c, id, failAt, fault)
          : c \in {RepoCreate(rem, EngineBody(cr), FaultAt(1, failAt, fault))} })

\* Mutant of RevokeUnknown: a fetched grant counts as known only when name and
\* permission both match a desired grant.
RECURSIVE RevokeUnknown_ByGrant(_, _, _, _, _, _)
RevokeUnknown_ByGrant(acc, groups, i, crGroups, failAt, fault) ==
    IF acc.err # Nil \/ i > Len(groups) THEN acc
    ELSE IF \E k \in 1..Len(crGroups) :
                /\ groups[i].name = crGroups[k].name
                /\ groups[i].permission = crGroups[k].permission
    THEN RevokeUnknown_ByGrant(acc, groups, i + 1, crGroups, failAt, fault)
    ELSE The({ RevokeUnknown_ByGrant(next, groups, i + 1, crGroups, failAt, fault)
               : next \in {Then(acc, RevokeGroup(acc.remote, groups[i],
                                     FaultAt(Len(acc.calls) + 1, failAt, fault)))} })

\* Mutant of RevokeUnknown: nothing is revoked.
RevokeUnknown_None(acc, groups, i, crGroups, failAt, fault) == acc

\* The "Delete unknown groups" loop of Update from groups[i] of the fetched
\* grants on; the loop returns at the first error.
RECURSIVE RevokeUnknown(_, _, _, _, _, _)
RevokeUnknown(acc, groups, i, crGroups, failAt, fault) ==
    IF acc.err # Nil \/ i > Len(groups) THEN acc
    ELSE IF \E k \in 1..Len(crGroups) : groups[i].name = crGroups[k].name
    THEN RevokeUnknown(acc, groups, i + 1, crGroups, failAt, fault)
    ELSE The({ RevokeUnknown(next, groups, i + 1, crGroups, failAt, fault)
               : next \in {Then(acc, RevokeGroup(acc.remote, groups[i],
                                     FaultAt(Len(acc.calls) + 1, failAt, fault)))} })

\* Mutant of UpdateGroups: a failed grant fetch is reported only after the
\* AddGroup and RevokeGroup loops have run.
UpdateGroups_IgnoreFetchError(cr, u, gg, id, failAt, fault) ==
    The({ The({ Outcome(r.remote, r.calls, IF gg.err # Nil THEN gg.err ELSE r.err,
                        FALSE, FALSE, id, "", "")
                : r \in {RevokeUnknown(a, gg.groups, 1, cr.groups, failAt, fault)} })
          : a \in {AddGroups([remote |-> gg.remote, calls |-> <<u.call, gg.call>>,
                              err |-> Nil], cr.groups, 1, failAt, fault)} })

\* external.Update, after the repository Update call u and the grant fetch gg.
UpdateGroups(cr, u, gg, id, failAt, fault) ==
    IF gg.err # Nil
    THEN Outcome(gg.remote, <<u.call, gg.call>>, gg.err, FALSE, FALSE, id, "", "")
    ELSE The({ The({ Outcome(r.remote, r.calls, r.err, FALSE, FALSE, id, "", "")
                     : r \in {RevokeUnknown(a, gg.groups, 1, cr.groups, failAt, fault)} })
               : a \in {AddGroups([remote |-> gg.remote, calls |-> <<u.call, gg.call>>,
                                   err |-> Nil], cr.groups, 1, failAt, fault)} })

\* external.Update
Update(cr, rem, id, failAt, fault, ord) ==
    The({ IF u.err # Nil
          THEN Outcome(u.remote, <<u.call>>, u.err, FALSE, FALSE, id, "", "")
          ELSE The({ UpdateGroups(cr, u, gg, id, failAt, fault)
                     : gg \in {GetGroups(u.remote, FaultAt(2, failAt, fault), ord)} })
          : u \in {RepoUpdate(rem, EngineBody(cr), FaultAt(1, failAt, fault))} })

\* external.Delete
Delete(cr, rem, id, version, failAt, fault) ==
    The({ Outcome(d.remote, <<d.call>>, d.err, FALSE, FALSE, id, "Deleting", "")
          : d \in {RepoDelete(rem, version, FaultAt(1, failAt, fault))} })

\* ------------------------------------------------------------------ state machine

\* The place and kind of the fault of an operation of at most n calls.
FaultPlans(n) == {<<0, "none">>} \cup ((1..n) \X Faults)

DesiredRecords ==
    [public : BOOLEAN, description : Descs, groups : SeqsUpTo(AdGroup, MaxGroups)]

\* The remote at the start: no repository, or a private one with any
\* description and grants.
RemoteRepos ==
    {AbsentRepo} \cup
    [exists : {TRUE}, id : {ServerID}, description : Descs, public : {FALSE},
     grants : [Names -> Perms \cup {NoPerm}]]

\* last: the operation that ran last, what it returned and did, and (prev) the
\* Create, Update or Delete that succeeded right before it ("none" otherwise).
NoOp ==
    [op |-> "none", calls |-> <<>>, err |-> Nil, exists |-> FALSE, upToDate |-> FALSE,
     condition |-> "", externalName |-> "", prev |-> "none"]

Init ==
    /\ desired \in DesiredRecords
    /\ remote \in RemoteRepos
    /\ statusID = NoID
    /\ last = NoOp

\* The operation op has run with outcome out.
Done(op, out) ==
    /\ remote' = out.remote
    /\ statusID' = out.id
    /\ last' = [op |-> op, calls |-> out.calls, err |-> out.err, exists |-> out.exists,
                upToDate |-> out.upToDate, condition |-> out.condition,
                externalName |-> out.externalName,
                prev |-> IF last.op \in {"Create", "Update", "Delete"} /\ last.err = Nil
                         THEN last.op ELSE "none"]
    /\ UNCHANGED desired

\* The managed reconciler wired up in Setup drives the four operations: every
\* pass starts with Observe, and its observation decides what follows: Create
\* when the resource is missing, Update when it exists and is out of date,
\* Delete when it exists and the record is being deleted.
Observed == last.op = "Observe" /\ last.err = Nil

DoObserve ==
    \E plan \in FaultPlans(2), ord \in Orders(GrantSet(remote)) :
        \E out \in {Observe(desired, remote, statusID, plan[1], plan[2], ord)} :
            Done("Observe", out)

DoCreate ==
    /\ Observed /\ ~last.exists
    /\ \E plan \in FaultPlans(1 + Len(desired.groups)) :
            \E out \in {Create(desired, remote, statusID, plan[1], plan[2])} :
                Done("Create", out)

DoUpdate ==
    /\ Observed /\ last.exists /\ ~last.upToDate
    /\ \E plan \in FaultPlans(2 + Len(desired.groups) + Cardinality(GrantSet(remote))),
          ord \in Orders(GrantSet(remote)) :
            \E out \in {Update(desired, remote, statusID, plan[1], plan[2], ord)} :
                Done("Update", out)

DoDelete ==
    /\ Observed /\ last.exists
    /\ \E plan \in FaultPlans(1), version \in Versions :
            \E out \in {Delete(desired, remote, statusID, version, plan[1], plan[2])} :
                Done("Delete", out)

Next == DoObserve \/ DoCreate \/ DoUpdate \/ DoDelete

Spec == Init /\ [][Next]_vars

\* ------------------------------------------------------------------ reconciliation

\* The reconciler on a record that is not being deleted and has no duplicate
\* group names: a pass is Observe followed by the Create or Update that its
\* observation asks for; the next pass starts when nothing is asked for (or
\* Observe failed).  Passes keep coming, so a step whose calls are all
\* answered by the server is eventually taken.
Indicated == Observed /\ (~last.exists \/ ~last.upToDate)

PassObserve == ~Indicated /\ DoObserve

InitConverge == Init /\ NoDupNames(desired.groups)

NextConverge == PassObserve \/ DoCreate \/ DoUpdate

\* A step none of whose calls met a 401 or a network failure.
Answered == \A i \in 1..Len(last'.calls) :
                last'.calls[i].err = Nil \/ Is(last'.calls[i].err, ErrNotFound)
                    \/ Is(last'.calls[i].err, ErrConflict)

SpecConverge ==
    InitConverge /\ [][NextConverge]_vars /\ WF_vars(NextConverge /\ Answered)

\* ------------------------------------------------------------------ cancellation

\* The four operations with the caller's context cancelled during at most one
\* of their calls: every call of the resource client is handed the ctx of the
\* operation, so any of them can be the one.
CancelPlans(n) == {<<0, "none">>} \cup ((1..n) \X {"cancelled"})

CancelObserve ==
    \E plan \in CancelPlans(2), ord \in Orders(GrantSet(remote)) :
        \E out \in {Observe(desired, remote, statusID, plan[1], plan[2], ord)} :
            Done("Observe", out)

CancelCreate ==
    /\ Observed /\ ~last.exists
    /\ \E plan \in CancelPlans(1 + Len(desired.groups)) :
            \E out \in {Create(desired, remote, statusID, plan[1], plan[2])} :
                Done("Create", out)

CancelUpdate ==
    /\ Observed /\ last.exists /\ ~last.upToDate
    /\ \E plan \in CancelPlans(2 + Len(desired.groups) + Cardinality(GrantSet(remote))),
          ord \in Orders(GrantSet(remote)) :
            \E out \in {Update(desired, remote, statusID, plan[1], plan[2], ord)} :
                Done("Update", out)

CancelDelete ==
    /\ Observed /\ last.exists
    /\ \E plan \in CancelPlans(1), version \in Versions :
            \E out \in {Delete(desired, remote, statusID, version, plan[1], plan[2])} :
                Done("Delete", out)

NextCancel == CancelObserve \/ CancelCreate \/ CancelUpdate \/ CancelDelete

SpecCancel == Init /\ [][NextCancel]_vars

\* ------------------------------------------------------------------ two identities

\* The names the server knows repositories of project CORE by, and the names
\* of the desired records that are reconciled, each as the sequence of its
\* parts between the "/" it contains.
PlainNames == {"a", "b"}

IdNames == {<<"a">>, <<"b">>, <<"x", "..", "a">>}

\* fmt.Sprintf("projects/%s/repos/%s", repository.Project, repository.Name),
\* as its segments: the name is put into the path as it is.
RepoPath(project, name) == <<"projects", project, "repos">> \o name

\* c.baseURL.Parse(path) in newRequest resolves the path against the base URL
\* and in doing so removes its "." and ".." segments.
RECURSIVE RemoveDotSegments(_, _)
RemoveDotSegments(out, segs) ==
    IF segs = <<>> THEN out
    ELSE IF Head(segs) = "." THEN RemoveDotSegments(out, Tail(segs))
    ELSE IF Head(segs) = ".."
    THEN RemoveDotSegments(IF out = <<>> THEN out ELSE SubSeq(out, 1, Len(out) - 1),
                           Tail(segs))
    ELSE RemoveDotSegments(Append(out, Head(segs)), Tail(segs))

\* The repository the server finds at the path built for name ("-": none).
\* The calls on permissions/groups append to the same path, and the calls
\* that follow a Get or an Update use the name the server returned, so all
\* calls of one operation arrive at this repository.
Addressed(name) ==
    The({ IF /\ Len(path) = 4 /\ path[1] = "projects" /\ path[2] = ProjectKey
             /\ path[3] = "repos" /\ path[4] \in PlainNames
          THEN path[4] ELSE "-"
          : path \in {RemoveDotSegments(<<>>, RepoPath(ProjectKey, name))} })

\* The server accepts a repository name in a create or update body only when
\* it has no "/".
NameAccepted(name) == Len(name) = 1 /\ name[1] \in PlainNames

Target(rems, t) == IF t = "-" THEN AbsentRepo ELSE rems[t]

\* What a body with a name the server does not accept is answered: 400.
Rejected(rem, id, name, msg, req) ==
    Outcome(rem, <<Call(name, req, Wrap(msg, <<"returned_status">>), <<>>)>>,
            Wrap(msg, <<"returned_status">>), FALSE, FALSE, id, "", "")

InitTwo ==
    /\ desired \in {d \in DesiredRecords : ~d.public /\ NoDupNames(d.groups)}
    /\ remote \in [PlainNames -> RemoteRepos]
    /\ statusID = NoID
    /\ last = [op |-> "none", calls |-> <<>>, err |-> Nil, exists |-> FALSE,
               upToDate |-> FALSE, condition |-> "", externalName |-> "",
               prev |-> "none", name |-> <<>>]

\* The operation op for the record called name has run with outcome out on
\* the repository t; last.name is the name of the record.
TwoDone(name, t, op, out) ==
    /\ remote' = IF t = "-" THEN remote ELSE [remote EXCEPT ![t] = out.remote]
    /\ statusID' = out.id
    /\ last' = [op |-> op, calls |-> out.calls, err |-> out.err, exists |-> out.exists,
                upToDate |-> out.upToDate, condition |-> out.condition,
                externalName |-> out.externalName, prev |-> "none", name |-> name]
    /\ UNCHANGED desired

TwoObserve ==
    \E name \in IdNames : \E t \in {Addressed(name)} :
        \E ord \in Orders(GrantSet(Target(remote, t))) :
            \E out \in {Observe(desired, Target(remote, t), statusID, 0, "none", ord)} :
                TwoDone(name, t, "Observe", out)

TwoCreate ==
    /\ Observed /\ ~last.exists
    /\ \E name \in {last.name} :
          \E t \in {IF NameAccepted(name) THEN name[1] ELSE "-"} :
            \E out \in {IF t = "-"
                         THEN Rejected(AbsentRepo, statusID, "Create",
                                       "error creating repository",
                                       Request("POST", "repos", EngineBody(desired), NoGroup))
                         ELSE Create(desired, remote[t], statusID, 0, "none")} :
                TwoDone(name, t, "Create", out)

TwoUpdate ==
    /\ Observed /\ last.exists /\ ~last.upToDate
    /\ \E name \in {last.name} : \E t \in {Addressed(name)} :
          \E ord \in Orders(GrantSet(Target(remote, t))) :
            \E out \in {IF NameAccepted(name)
                         THEN Update(desired, Target(remote, t), statusID, 0, "none", ord)
                         ELSE Rejected(Target(remote, t), statusID, "Update",
                                       "error updating repository",
                                       Request("PUT", "repo", EngineBody(desired), NoGroup))} :
                TwoDone(name, t, "Update", out)

TwoDelete ==
    /\ Observed /\ last.exists
    /\ \E name \in {last.name} : \E t \in {Addressed(name)} :
          \E version \in Versions :
            \E out \in {Delete(desired, Target(remote, t), statusID, version, 0, "none")} :
                TwoDone(name, t, "Delete", out)

NextTwo == TwoObserve \/ TwoCreate \/ TwoUpdate \/ TwoDelete

SpecTwo == InitTwo /\ [][NextTwo]_vars

\* ------------------------------------------------------------------ transport alone

\* handleResponse on its own: a response and a decode target are drawn, then
\* handled.
Statuses == {200, 201, 202, 204, 302, 399, 400, 401, 403, 404, 409, 500, 503}

Responses == [status : Statuses, readOK : BOOLEAN, body : {"valid", "syntax", "mismatch"}]

InitTransport ==
    /\ desired = [public |-> FALSE, description |-> "x", groups |-> <<>>]
    /\ remote = AbsentRepo
    /\ statusID = NoID
    /\ last \in [op : {"response"}, res : Responses, vNil : BOOLEAN,
                 out : {[err |-> Nil, unmarshal |-> FALSE]}]

HandleResponse ==
    /\ last.op = "response"
    /\ last' = [last EXCEPT !.op = "handled", !.out = handleResponse(last.res, last.vNil)]
    /\ UNCHANGED <<desired, remote, statusID>>

NextTransport == HandleResponse

SpecTransport == InitTransport /\ [][NextTransport]_vars

\* ------------------------------------------------------------------ construction

\* Client.ping: GET projects with a nil decode target.  net: the exchange
\* itself fails; res: the response otherwise.
ping(net, res) ==
    IF net THEN Wrap("error fetching projects", <<"net_error">>)
    ELSE WrapIf("error fetching projects", handleResponse(res, TRUE).err)

\* NewClient.  urlOK: url.Parse accepts the base URL.  Returns whether a
\* client is returned, the error, and the number of liveness calls made.
NewClient(urlOK, net, res) ==
    IF ~urlOK THEN [client |-> FALSE, err |-> <<"url_parse_error">>, pings |-> 0]
    ELSE The({ IF e # Nil
               THEN [client |-> FALSE, pings |-> 1,
                     err |-> Wrap("error creating bitbucket client", e)]
               ELSE [client |-> TRUE, pings |-> 1, err |-> Nil]
               : e \in {ping(net, res)} })

\* NewService: never fails.
NewService(client) == [service |-> client, err |-> Nil]

\* bitbucketService, the newServiceFn of the connector: log.Fatalln ends the
\* process (exited) when NewClient or NewService returns an error.
bitbucketService(urlOK, net, res) ==
    The({ IF c.err # Nil THEN [exited |-> TRUE, service |-> FALSE, err |-> Nil]
          ELSE The({ IF sv.err # Nil THEN [exited |-> TRUE, service |-> FALSE, err |-> Nil]
                     ELSE [exited |-> FALSE, service |-> sv.service, err |-> sv.err]
                     : sv \in {NewService(c.client)} })
          : c \in {NewClient(urlOK, net, res)} })

\* connector.Connect from the newServiceFn call on: whether the process was
\* ended, whether an external client is returned, and the error.
Connect(urlOK, net, res) ==
    The({ IF svc.exited THEN [exited |-> TRUE, external |-> FALSE, err |-> Nil]
          ELSE IF svc.err # Nil
          THEN [exited |-> FALSE, external |-> FALSE,
                err |-> Wrap("cannot create new Service", svc.err)]
          ELSE [exited |-> FALSE, external |-> svc.service, err |-> Nil]
          : svc \in {bitbucketService(urlOK, net, res)} })

\* Construction on its own: a base URL, and what the liveness call meets, are
\* drawn; then either NewClient is called directly or through Connect.
InitConnect ==
    /\ desired = [public |-> FALSE, description |-> "x", groups |-> <<>>]
    /\ remote = AbsentRepo
    /\ statusID = NoID
    /\ last \in [op : {"connecting"}, urlOK : BOOLEAN, net : BOOLEAN, res : Responses,
                 out : {[exited |-> FALSE]}]

DoNewClient ==
    /\ last.op = "connecting"
    /\ last' = [last EXCEPT !.op = "NewClient",
                            !.out = NewClient(last.urlOK, last.net, last.res)]
    /\ UNCHANGED <<desired, remote, statusID>>

DoConnect ==
    /\ last.op = "connecting"
    /\ last' = [last EXCEPT !.op = "Connect",
                            !.out = Connect(last.urlOK, last.net, last.res)]
    /\ UNCHANGED <<desired, remote, statusID>>

NextConnect == DoNewClient \/ DoConnect

SpecConnect == InitConnect /\ [][NextConnect]_vars

\* ------------------------------------------------------------------ groupsEqual alone

\* groupsEqual on its own: two grant sequences are drawn, neither restricted
\* to unique names, then compared.
InitGroups ==
    /\ desired = [public |-> FALSE, description |-> "x", groups |-> <<>>]
    /\ remote = AbsentRepo
    /\ statusID = NoID
    /\ last \in [op : {"groups"}, crGroups : SeqsUpTo(AdGroup, MaxGroups),
                 groups : SeqsUpTo(AdGroup, MaxGroups), out : {FALSE}]

CompareGroups ==
    /\ last.op = "groups"
    /\ last' = [last EXCEPT !.op = "compared",
                            !.out = groupsEqual(last.crGroups, last.groups)]
    /\ UNCHANGED <<desired, remote, statusID>>

NextGroups == CompareGroups

SpecGroups == InitGroups /\ [][NextGroups]_vars

\* ------------------------------------------------------------------ claims

\* The innermost error of a chain ("" for nil).
Cause(err) == IF err = Nil THEN "" ELSE err[Len(err)]

\* A call the server did not get to answer (a 401 or a network failure put in
\* its place); 404 and 409 are the stub's own answers.
Faulted(c) == Cause(c.err) \in {"permission", "net_error"}

NoFault(calls) == \A i \in 1..Len(calls) : ~Faulted(calls[i])

Indices(calls, name) == {i \in 1..Len(calls) : calls[i].name = name}

GroupNames(groups) == {groups[i].name : i \in 1..Len(groups)}

\* C1: when the repository fetch of Observe answers NotFound, Observe returns
\* exists = false with a nil error and issues no further call.
C1_MissingIsNoError ==
    (last.op = "Observe" /\ Cause(last.calls[1].err) = "not_found") =>
        /\ last.err = Nil
        /\ ~last.exists
        /\ Len(last.calls) = 1

C1_Witness ==
    /\ last.op = "Observe"
    /\ ~remote.exists
    /\ Cause(last.calls[1].err) = "not_found"
    /\ last.err = Nil /\ ~last.exists

\* C2: whenever a resource-client call of an engine operation fails, the
\* operation returns an error and no observation, except a NotFound from
\* Observe's repository fetch.
C2_FailuresSurface ==
    \A i \in 1..Len(last.calls) :
        ( /\ last.calls[i].err # Nil
          /\ ~(last.op = "Observe" /\ i = 1 /\ Cause(last.calls[i].err) = "not_found") )
        => (last.err # Nil /\ ~last.exists /\ ~last.upToDate)

\* C3: in a successful Update the AddGroup calls are the desired grants in
\* order, all of them before any RevokeGroup, and the RevokeGroup calls are
\* exactly the fetched grants whose name no desired grant carries.
C3_UpsertThenPrune ==
    (last.op = "Update" /\ last.err = Nil) =>
        LET calls    == last.calls
            adds     == Indices(calls, "AddGroup")
            revokes  == Indices(calls, "RevokeGroup")
            fetched  == calls[2].values
            unknown  == {i \in 1..Len(fetched) :
                            fetched[i].name \notin GroupNames(desired.groups)}
        IN  /\ calls[1].name = "Update" /\ calls[2].name = "GetGroups"
            /\ adds = {2 + k : k \in 1..Len(desired.groups)}
            /\ \A k \in 1..Len(desired.groups) :
                    /\ calls[2 + k].group.name = desired.groups[k].name
                    /\ calls[2 + k].group.permission = desired.groups[k].permission
            /\ \A i \in adds, j \in revokes : i < j
            /\ Cardinality(revokes) = Cardinality(unknown)
            /\ {calls[j].group : j \in revokes} = {fetched[i] : i \in unknown}
            /\ \A j \in revokes : calls[j].group.name \notin GroupNames(desired.groups)

\* An Update that re-grants a shared group with another permission, grants a
\* new one or revokes an unknown one.
C3_Witness ==
    /\ last.op = "Update" /\ last.err = Nil
    /\ Indices(last.calls, "RevokeGroup") # {}
    /\ \E k \in 1..Len(desired.groups), i \in 1..Len(last.calls[2].values) :
            /\ desired.groups[k].name = last.calls[2].values[i].name
            /\ desired.groups[k].permission # last.calls[2].values[i].permission

\* C4: for a desired record without duplicate group names, an Observe that
\* follows a successful Create and is answered by the server returns
\* exists = true and upToDate = true.
C4_CreateThenObserve ==
    ( /\ last.op = "Observe" /\ last.prev = "Create"
      /\ NoFault(last.calls)
      /\ NoDupNames(desired.groups) )
    => (last.err = Nil /\ last.exists /\ last.upToDate)

C4_Witness ==
    /\ last.op = "Observe" /\ last.prev = "Create"
    /\ NoFault(last.calls)
    /\ Len(desired.groups) >= 2 /\ NoDupNames(desired.groups)
    /\ last.upToDate

\* The remote holds the desired description and, as a set of (name,
\* permission) pairs, the desired grants, and the server answered Observe.
MatchingObserved ==
    /\ last.op = "Observe" /\ NoFault(last.calls)
    /\ remote.exists
    /\ remote.description = desired.description
    /\ GrantSet(remote) = Range(desired.groups)

\* C5 as stated: whenever the remote description and grant set equal the
\* desired ones, Observe returns exists = true, upToDate = true and no error.
C5_MatchIsUpToDate ==
    MatchingObserved => (last.err = Nil /\ last.exists /\ last.upToDate)

\* C5, amended: the same for a desired record without duplicate group names.
C5_MatchIsUpToDate_NoDup ==
    (MatchingObserved /\ NoDupNames(desired.groups)) =>
        (last.err = Nil /\ last.exists /\ last.upToDate)

C5_Witness ==
    /\ MatchingObserved /\ NoDupNames(desired.groups)
    /\ Len(desired.groups) >= 2
    /\ last.calls[2].values # desired.groups
    /\ last.upToDate

\* C6: for a desired record without duplicate group names and an existing
\* repository whose grants differ from the desired ones (a group missing, an
\* extra group, or another permission), an Observe the server answers returns
\* exists = true and upToDate = false.
C6_MismatchIsOutOfDate ==
    ( /\ last.op = "Observe" /\ NoFault(last.calls)
      /\ remote.exists
      /\ NoDupNames(desired.groups)
      /\ GrantSet(remote) # Range(desired.groups) )
    => (last.err = Nil /\ last.exists /\ ~last.upToDate)

\* The descriptions agree and the remote has one group more than desired.
C6_Witness ==
    /\ last.op = "Observe" /\ NoFault(last.calls)
    /\ remote.exists /\ remote.description = desired.description
    /\ NoDupNames(desired.groups)
    /\ Range(desired.groups) \subseteq GrantSet(remote)
    /\ GrantSet(remote) # Range(desired.groups)
    /\ last.exists /\ ~last.upToDate

\* C7: when the fetch succeeds and the descriptions differ, Observe returns
\* exists = true, upToDate = false and never issues GetGroups.
C7_DescriptionShortCircuit ==
    ( /\ last.op = "Observe" /\ last.calls[1].err = Nil
      /\ remote.description # desired.description )
    => /\ last.err = Nil /\ last.exists /\ ~last.upToDate
       /\ Len(last.calls) = 1

\* The descriptions differ although the grants agree.
C7_Witness ==
    /\ last.op = "Observe" /\ last.calls[1].err = Nil
    /\ remote.description # desired.description
    /\ GrantSet(remote) = Range(desired.groups) /\ desired.groups # <<>>
    /\ last.exists /\ ~last.upToDate

\* C8: the observation does not change when the desired groups or the grants
\* the server listed are rearranged.
C8_OrderIndependent ==
    (last.op = "Observe" /\ Len(last.calls) = 2) =>
        \A p \in Rearrangements(desired.groups),
           q \in Rearrangements(last.calls[2].values) :
            /\ groupsEqual(p, q) = last.upToDate
            /\ NoFault(last.calls) =>
                 LET o == Observe([desired EXCEPT !.groups = p], remote, statusID,
                                  0, "none", q)
                 IN  /\ o.err = last.err
                     /\ o.exists = last.exists
                     /\ o.upToDate = last.upToDate

\* Up to date although the server lists the grants in another order.
C8_Witness ==
    /\ last.op = "Observe" /\ Len(last.calls) = 2
    /\ Len(desired.groups) >= 2
    /\ last.calls[2].values # desired.groups
    /\ last.upToDate

\* C9: every resource client's Delete issues an HTTP DELETE, so that a
\* successful engine Delete leaves the repository absent and the Observe that
\* follows returns Missing.
C9_DeleteIsDELETE ==
    /\ last.op = "Delete" =>
          /\ last.calls[1].method = "DELETE"
          /\ last.err = Nil => ~remote.exists
    /\ (last.op = "Observe" /\ last.prev = "Delete" /\ NoFault(last.calls)) =>
          (last.err = Nil /\ ~last.exists)

\* What C10 says of a handled response.
ByStatus(res, vNil, out) ==
    /\ res.status = 404 => (out.err = ErrNotFound /\ ~out.unmarshal)
    /\ res.status = 401 => (out.err = ErrPermission /\ ~out.unmarshal)
    /\ res.status = 409 => (out.err = ErrConflict /\ ~out.unmarshal)
    /\ (res.status >= 400 /\ res.status \notin {404, 401, 409}) =>
          (out.err = <<"returned_status">> /\ ~out.unmarshal)
    /\ (res.status < 400 /\ (res.status = 204 \/ vNil)) =>
          (out.err = Nil /\ ~out.unmarshal)
    /\ (res.status < 400 /\ res.status # 204 /\ ~vNil) => out.unmarshal

\* C10 as stated: every response is mapped by its status code alone.
C10_ByStatus ==
    last.op = "handled" => ByStatus(last.res, last.vNil, last.out)

\* C10, amended: every response whose body could be read is.
C10_ByStatus_BodyRead ==
    (last.op = "handled" /\ last.res.readOK) => ByStatus(last.res, last.vNil, last.out)

\* A 404 that came with a nil decode target is NotFound, not a success.
C10_Witness ==
    /\ last.op = "handled" /\ last.res.readOK
    /\ last.res.status = 404 /\ last.vNil
    /\ last.out.err = ErrNotFound

\* C11: a 401 answered to any call of an engine operation makes the operation
\* return an error that errors.Is identifies as ErrPermission.
C11_PermissionPreserved ==
    \A i \in 1..Len(last.calls) :
        Cause(last.calls[i].err) = "permission" => Is(last.err, ErrPermission)

\* C12: on a decoded response, a body that is not JSON gives ErrResponseMalformed
\* and a JSON body of another shape gives a different, non-nil error.
C12_SyntaxIsMalformed ==
    ( /\ last.op = "handled" /\ last.res.readOK
      /\ last.res.status < 400 /\ last.res.status # 204 /\ ~last.vNil ) =>
        /\ last.res.body = "syntax" => last.out.err = ErrResponseMalformed
        /\ last.res.body = "mismatch" =>
              (last.out.err # Nil /\ ~Is(last.out.err, ErrResponseMalformed))
        /\ last.res.body = "valid" => last.out.err = Nil

C12_Witness ==
    /\ last.op = "handled" /\ last.res.readOK
    /\ last.res.status = 200 /\ ~last.vNil
    /\ last.res.body = "syntax"
    /\ last.out.err = ErrResponseMalformed

\* What the calls that succeeded changed is still in the remote rem: nothing
\* was undone.
ChangesKept(calls, rem) ==
    \A i \in 1..Len(calls) :
        calls[i].err = Nil =>
            /\ calls[i].name \in {"Create", "Update"} =>
                  (rem.exists /\ rem.description = calls[i].body.description)
            /\ calls[i].name = "AddGroup" =>
                  ( (\A j \in (i + 1)..Len(calls) :
                        calls[j].group.name # calls[i].group.name)
                    => rem.grants[calls[i].group.name] = calls[i].group.permission )
            /\ calls[i].name = "RevokeGroup" =>
                  rem.grants[calls[i].group.name] = NoPerm

\* Only the last call of an operation can have failed, and its error is what
\* the operation returns.
StopsAtFailure(calls, err) ==
    /\ Len(calls) >= 1
    /\ \A i \in 1..Len(calls) : calls[i].err # Nil => i = Len(calls)
    /\ err = calls[Len(calls)].err

\* C13: Create issues one repository Create call first and nothing after it
\* when it fails; otherwise AddGroup for the desired groups in their order, up
\* to the first failure, which is returned; what was applied stays applied.
C13_CreateSequence ==
    last.op = "Create" =>
        /\ StopsAtFailure(last.calls, last.err)
        /\ last.calls[1].name = "Create"
        /\ \A i \in 2..Len(last.calls) :
              /\ last.calls[i].name = "AddGroup"
              /\ i - 1 <= Len(desired.groups)
              /\ last.calls[i].group = desired.groups[i - 1]
        /\ last.err = Nil => Len(last.calls) = 1 + Len(desired.groups)
        /\ ChangesKept(last.calls, remote)

C13_Witness ==
    /\ last.op = "Create"
    /\ Len(last.calls) = 3
    /\ last.calls[2].err = Nil /\ last.calls[3].err # Nil
    /\ last.err = last.calls[3].err
    /\ remote.exists
    /\ remote.grants[desired.groups[1].name] = desired.groups[1].permission

\* C14: in Update a failed repository Update stops before the grant fetch, a
\* failed grant fetch before any AddGroup or RevokeGroup, a failed AddGroup
\* before the remaining AddGroup and all RevokeGroup calls, a failed
\* RevokeGroup before the remaining ones; the error is returned and what was
\* applied stays applied.
C14_UpdateStopsAtFailure ==
    last.op = "Update" =>
        /\ StopsAtFailure(last.calls, last.err)
        /\ last.calls[1].name = "Update"
        /\ Len(last.calls) >= 2 => last.calls[2].name = "GetGroups"
        /\ \A i \in 3..Len(last.calls) : last.calls[i].name \in {"AddGroup", "RevokeGroup"}
        /\ \A i, j \in 3..Len(last.calls) :
              (i < j /\ last.calls[i].name = "RevokeGroup") => last.calls[j].name = "RevokeGroup"
        /\ ChangesKept(last.calls, remote)

C14_Witness ==
    /\ last.op = "Update"
    /\ Len(last.calls) = 4
    /\ last.calls[3].name = "AddGroup" /\ last.calls[3].err = Nil
    /\ last.calls[4].name = "RevokeGroup" /\ last.calls[4].err # Nil
    /\ last.err = last.calls[4].err
    /\ remote.grants[last.calls[3].group.name] = last.calls[3].group.permission
    /\ remote.grants[last.calls[4].group.name] # NoPerm

\* C16: the body of Create and of Update carries the desired name, description
\* and public flag, and after a successful Create or Update the remote has the
\* desired visibility.
C16_BodyCarriesPublic ==
    (last.op \in {"Create", "Update"}) =>
        /\ last.calls[1].body =
              [name |-> RepoName, public |-> desired.public,
               description |-> desired.description]
        /\ last.err = Nil => remote.public = desired.public

\* C17: one invocation issues each of its calls at most once: Observe one Get
\* and one GetGroups, Create one repository Create and one AddGroup per desired
\* entry, Update one repository Update, one GetGroups, one AddGroup per
\* desired entry and one RevokeGroup per fetched grant, Delete one delete.
C17_NoRetry ==
    LET n(name) == Cardinality(Indices(last.calls, name))
        adds == Indices(last.calls, "AddGroup")
        revs == Indices(last.calls, "RevokeGroup")
        total == n("Get") + n("GetGroups") + n("Create") + n("Update") + n("Delete")
                   + Cardinality(adds) + Cardinality(revs)
    IN  /\ last.op \in {"Observe", "Create", "Update", "Delete"} =>
              /\ total = Len(last.calls)
              /\ n("Get") <= 1 /\ n("GetGroups") <= 1 /\ n("Create") <= 1
              /\ n("Update") <= 1 /\ n("Delete") <= 1
              /\ Cardinality(adds) <= Len(desired.groups)
              /\ \A i \in adds : \E k \in 1..Len(desired.groups) :
                    /\ last.calls[i].group = desired.groups[k]
                    /\ Cardinality({j \in adds : j <= i}) = k
              /\ \A i, j \in revs : last.calls[i].group = last.calls[j].group => i = j
        /\ last.op = "Observe" => (n("Create") + n("Update") + n("Delete") = 0 /\ adds \cup revs = {})
        /\ last.op = "Create" => (n("Get") + n("GetGroups") + n("Update") + n("Delete") = 0 /\ revs = {})
        /\ last.op = "Update" =>
              /\ n("Get") + n("Create") + n("Delete") = 0
              /\ \A i \in revs : \E k \in 1..Len(last.calls[2].values) :
                    last.calls[i].group = last.calls[2].values[k]
        /\ last.op = "Delete" => Len(last.calls) = 1 /\ n("Delete") = 1

\* An Observe whose fetch failed made that one call only.
C17_Witness ==
    /\ last.op = "Observe"
    /\ Len(last.calls) = 1
    /\ Cause(last.calls[1].err) = "net_error"
    /\ last.err # Nil

\* C20: an Observe that finds the repository leaves its id in the status id,
\* whichever path it returns by; an Observe that finds none, or whose fetch
\* fails, leaves the status id as it was.
C20_StatusID ==
    [][ last'.op = "Observe" =>
            IF last'.exists THEN statusID' = remote'.id /\ remote'.exists
            ELSE statusID' = statusID ]_vars

\* The description-mismatch path has recorded the id.
C20_Witness ==
    /\ last.op = "Observe" /\ last.err = Nil
    /\ last.exists /\ ~last.upToDate
    /\ Len(last.calls) = 1
    /\ statusID = ServerID

\* Equal length, every desired pair among the remote ones and every remote
\* pair among the desired ones.
SameGrants(crGroups, groups) ==
    /\ Len(crGroups) = Len(groups)
    /\ Range(crGroups) \subseteq Range(groups)
    /\ Range(groups) \subseteq Range(crGroups)

\* C19 as stated: for all grant sequences, unique names or not, groupsEqual is
\* true exactly when the lengths are equal and each side's pairs occur in the
\* other.
C19_GroupsEqualBothWays ==
    last.op = "compared" => (last.out <=> SameGrants(last.crGroups, last.groups))

\* C19, amended: for desired sequences without duplicate group names.
C19_GroupsEqualBothWays_NoDup ==
    (last.op = "compared" /\ NoDupNames(last.crGroups)) =>
        (last.out <=> SameGrants(last.crGroups, last.groups))

\* Two grants listed in opposite orders compare equal.
C19_Witness ==
    /\ last.op = "compared"
    /\ NoDupNames(last.crGroups)
    /\ Len(last.crGroups) = 2
    /\ last.groups = <<last.crGroups[2], last.crGroups[1]>>
    /\ last.out

\* The liveness call of a construction did not succeed.
PingFailed == last.net \/ ~last.res.readOK \/ last.res.status >= 400

\* C15: construction makes exactly one liveness call and, when that call
\* fails, returns an error and no client; the connection factory built on it
\* hands the failure to its caller and does not end the process.
C15_ConstructionSurfacesFailure ==
    /\ (last.op = "NewClient" /\ last.urlOK) =>
          /\ last.out.pings = 1
          /\ PingFailed => (last.out.err # Nil /\ ~last.out.client)
    /\ last.op = "Connect" =>
          /\ ~last.out.exited
          /\ (last.urlOK /\ PingFailed) => (last.out.err # Nil /\ ~last.out.external)

\* The last operation was an Observe that returned UpToDate.
ObservedUpToDate ==
    last.op = "Observe" /\ last.err = Nil /\ last.exists /\ last.upToDate

\* C18: from any remote state, once the calls succeed, the passes of the
\* reconciler reach an Observe that returns UpToDate, and every Observe after
\* it returns UpToDate too.
C18_Converges ==
    /\ (<>[][NoFault(last'.calls)]_vars) => <>[]ObservedUpToDate
    /\ [][ (ObservedUpToDate /\ NoFault(last.calls) /\ NoFault(last'.calls))
              => ObservedUpToDate' ]_vars

\* An Observe that follows a successful Update returns UpToDate.
C18_Witness ==
    /\ ObservedUpToDate
    /\ NoFault(last.calls)
    /\ last.prev = "Update"
    /\ desired.groups # <<>>

\* C21: Observe returns the same for two desired records that differ only in
\* public, whatever the remote, the faults and the order of the listed grants:
\* visibility alone never makes the record OutOfDate.
C21_PublicNotObserved ==
    \A plan \in FaultPlans(2), ord \in Orders(GrantSet(remote)) :
        Observe([desired EXCEPT !.public = ~desired.public], remote, statusID,
                plan[1], plan[2], ord)
            = Observe(desired, remote, statusID, plan[1], plan[2], ord)

\* A public record is observed UpToDate on a private repository.
C21_Witness ==
    /\ ObservedUpToDate /\ NoFault(last.calls)
    /\ desired.public /\ ~remote.public
    /\ Len(last.calls) = 2

\* C23: a successful Update for a record without duplicate group names leaves
\* the desired description and exactly the desired grants on the remote; the
\* Observe that follows returns UpToDate and a second Update leaves the remote
\* as it is.
C23_UpdateIdempotent ==
    (last.op = "Update" /\ last.err = Nil /\ NoDupNames(desired.groups)) =>
        /\ remote.exists
        /\ remote.description = desired.description
        /\ GrantSet(remote) = Range(desired.groups)
        /\ \A ord \in Orders(GrantSet(remote)) :
              /\ \E o \in {Observe(desired, remote, statusID, 0, "none", ord)} :
                    o.err = Nil /\ o.exists /\ o.upToDate
              /\ \E u \in {Update(desired, remote, statusID, 0, "none", ord)} :
                    u.err = Nil /\ u.remote = remote

\* An Update that added one grant and revoked another.
C23_Witness ==
    /\ last.op = "Update" /\ last.err = Nil
    /\ NoDupNames(desired.groups)
    /\ Indices(last.calls, "AddGroup") # {}
    /\ Indices(last.calls, "RevokeGroup") # {}
    /\ GrantSet(remote) = Range(desired.groups)

\* C24: an Observe step issues only GET calls, the repository fetch and then
\* at most the grant fetch, and leaves the remote as it was.
C24_ObserveReadOnly ==
    [][ last'.op = "Observe" =>
            /\ remote' = remote
            /\ Len(last'.calls) \in {1, 2}
            /\ last'.calls[1].name = "Get"
            /\ Len(last'.calls) = 2 => last'.calls[2].name = "GetGroups"
            /\ \A i \in 1..Len(last'.calls) : last'.calls[i].method = "GET" ]_vars

\* An Observe that fetched the grants of a repository that has some.
C24_Witness ==
    /\ last.op = "Observe"
    /\ Len(last.calls) = 2
    /\ last.calls[2].err = Nil
    /\ remote.exists /\ GrantSet(remote) # {}

\* C22: a cancellation that arrives during any call of an engine operation
\* makes the operation return the cancellation as its error, which is none of
\* the typed kinds, and no observation.
C22_CancellationSurfaces ==
    \A i \in 1..Len(last.calls) :
        Cause(last.calls[i].err) = "context_canceled" =>
            /\ Cause(last.err) = "context_canceled"
            /\ ~last.exists /\ ~last.upToDate

\* C25: an operation for one identity changes the remote repository and
\* grants of that identity only: whatever changes at the name k was changed
\* by an operation for the record named k.
C25_OwnIdentityOnly ==
    [][ \A k \in PlainNames : remote'[k] # remote[k] => last'.name = <<k>> ]_vars

====
